---- MODULE Spec2Model ----
(***************************************************************************)
(* Model of the Docker Explorer MCP servers:                               *)
(*   src/docker_explorer.py           (tools, report tools, Hub client)    *)
(*   src/docker_mcp_server_sample.py  (tools, resources, registry client)  *)
(*                                                                         *)
(* Strings.  A Python string is a sequence of tokens.  A token is either a *)
(* separator character ("/", ":", "," or " ") or a word, a maximal run of characters *)
(* holding no separator; no two words are adjacent and the empty string is *)
(* <<>>.  str.split, the "in" operator and f-string concatenation are      *)
(* computed on that representation.  The substring tests of the source     *)
(* ('docker.com' in s, 'repository/docker' in s) are computed from what    *)
(* each word of the vocabulary contains, starts with and ends with.        *)
(*                                                                         *)
(* Outcomes.  A Python call either returns a value or raises:              *)
(*   [raised |-> FALSE, value |-> v]    [raised |-> TRUE, exc |-> e]       *)
(* Returned values are records carrying a "type" field.                    *)
(***************************************************************************)
EXTENDS Integers, Sequences, FiniteSets, TLC

VARIABLES
    call,      \* the invocation of a tool that runs in one step, with its outcome, until the host takes it
    pc,        \* per handler slot of the host: where its get_manifest call stands
    req,       \* per handler slot: the arguments and local variables of its call
    session    \* the headers of the registry client's one shared requests.Session

vars == <<call, pc, req, session>>

----------------------------------------------------------------------------
(* Bounds of the model *)

\* path segments after the host of a generated URL
MaxPath == 5

\* path segments of a generated URL on a host that is not Docker Hub: the tools
\* return at the 'docker.com' test, before they look at the path
MaxOffHubPath == 2

\* '/'-separated parts of a generated image name
MaxNameParts == 3

\* records in a remote result list, layers in a manifest
MaxResults == 2

\* handler slots of the host (get_manifest calls that can be in progress together)
NumCalls == 2

----------------------------------------------------------------------------
(* Strings *)

SLASH == "/"

COLON == ":"

Str(w) == <<w>>

Contains(s, sep) == \E i \in 1..Len(s) : s[i] = sep

FirstIndex(s, sep) == CHOOSE i \in 1..Len(s) : s[i] = sep /\ \A j \in 1..(i-1) : s[j] # sep

\* str.split(sep): every piece between two occurrences of sep, empty pieces kept
RECURSIVE Split(_, _)
Split(s, sep) ==
    IF ~Contains(s, sep) THEN <<s>>
    ELSE LET k == FirstIndex(s, sep)
         IN  <<SubSeq(s, 1, k-1)>> \o Split(SubSeq(s, k+1, Len(s)), sep)

\* str.split(sep, 1) on a string that holds sep: the text before the first sep, the text after it
SplitFirst(s, sep) ==
    LET k == FirstIndex(s, sep)
    IN  <<SubSeq(s, 1, k-1), SubSeq(s, k+1, Len(s))>>

\* sep.join(parts)
RECURSIVE Join(_, _)
Join(parts, sep) ==
    IF Len(parts) = 0 THEN <<>>
    ELSE IF Len(parts) = 1 THEN parts[1]
    ELSE parts[1] \o <<sep>> \o Join(Tail(parts), sep)

\* what the words of the vocabulary look like to a substring test
WordHasDockerCom(w) == w \in {"hub.docker.com"}

WordEndsWithRepository(w) == w \in {"repository"}

WordStartsWithDocker(w) == w \in {"docker", "docker-app"}

\* 'docker.com' in s
InDockerCom(s) == \E i \in 1..Len(s) : WordHasDockerCom(s[i])

\* 'repository/docker' in s
InRepositoryDocker(s) ==
    \E i \in 1..(Len(s) - 2) :
        /\ WordEndsWithRepository(s[i])
        /\ s[i+1] = SLASH
        /\ WordStartsWithDocker(s[i+2])

----------------------------------------------------------------------------
(* Outcomes of a call *)

Return(v) == [raised |-> FALSE, value |-> v]

Raise(e) == [raised |-> TRUE, exc |-> e]

\* a returned str: a fixed message, or a template with the values filled in
Text(t) == [type |-> "str", text |-> t]

TextOf(t, a) == [type |-> "str", text |-> t, arg |-> a]

MsgInvalidUrl == Text("Please provide a valid Docker Hub repository URL")

MsgNoParse == Text("Could not parse repository information from the URL")

----------------------------------------------------------------------------
(* The URL parser, as each URL-taking tool inlines it *)

\* the for/enumerate loop: the first part equal to marker that has two parts
\* after it decides (break); None when there is none
FirstAfterNoLenCheck(parts, marker) ==
    IF \E i \in 1..Len(parts) : parts[i] = marker
    THEN LET i == CHOOSE k \in 1..Len(parts) :
                      parts[k] = marker /\ \A j \in 1..(k-1) : parts[j] # marker
         IN  IF i + 2 <= Len(parts)
             THEN [found |-> TRUE, raised |-> FALSE, namespace |-> parts[i+1], repo_name |-> parts[i+2]]
             ELSE [found |-> FALSE, raised |-> TRUE]
    ELSE [found |-> FALSE, raised |-> FALSE]

FirstAfter(parts, marker) ==
    LET hits == { i \in 1..Len(parts) : parts[i] = marker /\ i + 2 <= Len(parts) }
    IN  IF hits = {} THEN [found |-> FALSE, raised |-> FALSE]
        ELSE LET i == CHOOSE k \in hits : \A j \in hits : k <= j
             IN  [found |-> TRUE, raised |-> FALSE, namespace |-> parts[i+1], repo_name |-> parts[i+2]]

\* lines 167-191: Return(message) on a parse failure, else the located pair
ParseOutcome(url, loc) ==
    IF loc.raised THEN Raise("IndexError")
    ELSE IF ~loc.found \/ loc.namespace = <<>> \/ loc.repo_name = <<>> THEN Return(MsgNoParse)
    ELSE Return([type |-> "parsed", namespace |-> loc.namespace, repo_name |-> loc.repo_name])

analyze_repository_parse(url) ==
    LET parts == Split(url, SLASH)
    IN  IF ~InDockerCom(url) THEN Return(MsgInvalidUrl)
        ELSE ParseOutcome(url, IF InRepositoryDocker(url)
                               THEN FirstAfter(parts, Str("docker"))
                               ELSE FirstAfter(parts, Str("r")))

analyze_dockerfile_parse(url) ==
    LET parts == Split(url, SLASH)
    IN  IF ~InDockerCom(url) THEN Return(MsgInvalidUrl)
        ELSE ParseOutcome(url, IF InRepositoryDocker(url)
                               THEN FirstAfter(parts, Str("docker"))
                               ELSE FirstAfter(parts, Str("r")))

optimize_image_size_parse(url) ==
    LET parts == Split(url, SLASH)
    IN  IF ~InDockerCom(url) THEN Return(MsgInvalidUrl)
        ELSE ParseOutcome(url, IF InRepositoryDocker(url)
                               THEN FirstAfter(parts, Str("docker"))
                               ELSE FirstAfter(parts, Str("r")))

\* a copy that tries the r form before the repository/docker form
generate_docker_compose_parse_r_first(url) ==
    LET parts == Split(url, SLASH)
    IN  IF ~InDockerCom(url) THEN Return(MsgInvalidUrl)
        ELSE ParseOutcome(url, IF FirstAfter(parts, Str("r")).found
                               THEN FirstAfter(parts, Str("r"))
                               ELSE FirstAfter(parts, Str("docker")))

\* lines 501-523: this copy splits before it tests for 'docker.com'
generate_docker_compose_parse(url) ==
    LET parts == Split(url, SLASH)
    IN  IF ~InDockerCom(url) THEN Return(MsgInvalidUrl)
        ELSE ParseOutcome(url, IF InRepositoryDocker(url)
                               THEN FirstAfter(parts, Str("docker"))
                               ELSE FirstAfter(parts, Str("r")))

----------------------------------------------------------------------------
(* The remote side: what one HTTP request can be answered with *)

\* requests raises (no connection, timeout): there is no response object
NoAnswer == [err |-> TRUE]

Answer(status, body) == [err |-> FALSE, status |-> status, body |-> body]

\* a body response.json() cannot decode
NotJson == [json |-> FALSE]

Json(obj) == [json |-> TRUE, obj |-> obj]

\* a JSON object holding none of the fields the code reads
NoFields == [count |-> 0]

Statuses == {200, 404, 500}

\* response.json()
json(resp) == IF resp.body.json THEN Return(resp.body.obj) ELSE Raise("JSONDecodeError")

\* d[key]
Item(d, key) == IF key \in DOMAIN d THEN Return(d[key]) ELSE Raise("KeyError")

\* d.get(key, default)
GetOr(d, key, default) == IF key \in DOMAIN d THEN d[key] ELSE default

----------------------------------------------------------------------------
(* DockerHubClient: search_images, get_image_tags, search_users.  The three *)
(* methods differ in the URL they GET and share their body.                 *)

ResultsOrRaise(resp) ==
    IF resp.err THEN Raise("ConnectionError")
    ELSE IF resp.status = 200
         THEN LET j == json(resp)
              IN  IF j.raised THEN j ELSE Item(j.value, "results")
         ELSE Raise("HTTPError")

ResultsOrEmpty(resp) ==
    IF resp.err THEN Raise("ConnectionError")
    ELSE IF resp.status = 200
         THEN LET j == json(resp)
              IN  IF j.raised THEN j ELSE Item(j.value, "results")
         ELSE Return(<<>>)

DockerHubClient_search_images(resp) == ResultsOrEmpty(resp)

DockerHubClient_get_image_tags(resp) == ResultsOrEmpty(resp)

DockerHubClient_search_users(resp) == ResultsOrEmpty(resp)

\* the requests a tool puts on the wire
GetSearchRepositories == [method |-> "GET", url |-> "/search/repositories"]

GetSearchUsers == [method |-> "GET", url |-> "/search/users"]

GetRepository(namespace, repository) ==
    [method |-> "GET", url |-> "/repositories/{namespace}/{repository}",
     namespace |-> namespace, repository |-> repository]

GetTags(namespace, repository, limit) ==
    [method |-> "GET", url |-> "/repositories/{namespace}/{repository}/tags",
     namespace |-> namespace, repository |-> repository, page_size |-> limit]

\* [f(r) for r in results] where f reads r[key]: KeyError on the first record without it
AllHave(results, key) == \A i \in 1..Len(results) : key \in DOMAIN results[i]

\* what a tool did: its outcome and the requests it issued
Did(out, reqs) == [out |-> out, reqs |-> reqs]

\* except Exception as e: return f"Error <doing>: {str(e)}"
Caught(t, doing) ==
    IF t.out.raised THEN Did(Return(TextOf(doing, t.out.exc)), t.reqs) ELSE t

----------------------------------------------------------------------------
(* str.lower, str.replace('-', '_') and str.strip on the vocabulary *)

LowerWord(w) ==
    CASE w = "Drupal" -> "drupal"
      [] w = "Node"   -> "node"
      [] w = "Java"   -> "java"
      [] w = "WEB"    -> "web"
      [] w = "Cache"  -> "cache"
      [] OTHER        -> w

Lower(s) == [i \in 1..Len(s) |-> LowerWord(s[i])]

DashToUnderscoreWord(w) == IF w = "docker-app" THEN "docker_app" ELSE w

DashToUnderscore(s) == [i \in 1..Len(s) |-> DashToUnderscoreWord(s[i])]

SPACE == " "

COMMA == ","

RECURSIVE LStrip(_)
LStrip(s) == IF Len(s) > 0 /\ s[1] = SPACE THEN LStrip(Tail(s)) ELSE s

RECURSIVE RStrip(_)
RStrip(s) == IF Len(s) > 0 /\ s[Len(s)] = SPACE THEN RStrip(SubSeq(s, 1, Len(s) - 1)) ELSE s

Strip(s) == RStrip(LStrip(s))

\* f"{namespace}/{repo_name}"
FullRepoName(namespace, repo_name) == namespace \o <<SLASH>> \o repo_name

----------------------------------------------------------------------------
(* docker_explorer.py: the search tools (no try/except around them) *)

search_images(resp) ==
    LET results == DockerHubClient_search_images(resp)
    IN  IF results.raised THEN Did(results, <<GetSearchRepositories>>)
        ELSE IF ~AllHave(results.value, "repo_name") THEN Did(Raise("KeyError"), <<GetSearchRepositories>>)
        ELSE Did(Return([type |-> "list[DockerImage]",
                         items |-> [i \in 1..Len(results.value) |->
                                      [name |-> results.value[i].repo_name,
                                       stars |-> GetOr(results.value[i], "star_count", "None")]]]),
                 <<GetSearchRepositories>>)

search_users(resp) ==
    LET results == DockerHubClient_search_users(resp)
    IN  IF results.raised THEN Did(results, <<GetSearchUsers>>)
        ELSE IF ~AllHave(results.value, "username") THEN Did(Raise("KeyError"), <<GetSearchUsers>>)
        ELSE Did(Return([type |-> "list[DockerUser]",
                         items |-> [i \in 1..Len(results.value) |->
                                      [username |-> results.value[i].username,
                                       is_organization |-> GetOr(results.value[i], "type", "") = "organization"]]]),
                 <<GetSearchUsers>>)

\* lines 100-103: the (namespace, repository) pair of an image name
search_tags_split_last(image_name) ==
    IF Contains(image_name, SLASH)
    THEN LET parts == Split(image_name, SLASH)
         IN  <<Join(SubSeq(parts, 1, Len(parts) - 1), SLASH), parts[Len(parts)]>>
    ELSE <<Str("library"), image_name>>

search_tags_split(image_name) ==
    IF Contains(image_name, SLASH)
    THEN SplitFirst(image_name, SLASH)
    ELSE <<Str("library"), image_name>>

\* tag_pattern in name, for the tag names and patterns of the vocabulary
IsSubstring(pattern, name) ==
    \/ pattern = name
    \/ pattern = "alpine" /\ name \in {"1.0-alpine"}
    \/ pattern = "1.0" /\ name \in {"1.0-alpine"}

Filter(seq, Keep(_)) ==
    LET F[i \in 0..Len(seq)] ==
            IF i = 0 THEN <<>>
            ELSE IF Keep(seq[i]) THEN Append(F[i-1], seq[i]) ELSE F[i-1]
    IN  F[Len(seq)]

\* the tool without "if tag_pattern: return [t for t in result_tags if ...]"
search_tags_unfiltered(image_name, tag_pattern, limit, resp) ==
    LET nr   == search_tags_split(image_name)
        q    == GetTags(nr[1], nr[2], limit)
        tags == DockerHubClient_get_image_tags(resp)
    IN  IF tags.raised THEN Did(tags, <<q>>)
        ELSE IF ~AllHave(tags.value, "name") THEN Did(Raise("KeyError"), <<q>>)
        ELSE Did(Return([type |-> "list[DockerTag]",
                         items |-> [i \in 1..Len(tags.value) |->
                                      [name |-> tags.value[i].name,
                                       last_updated |-> GetOr(tags.value[i], "last_updated", "None")]]]),
                 <<q>>)

search_tags(image_name, tag_pattern, limit, resp) ==
    LET nr   == search_tags_split(image_name)
        q    == GetTags(nr[1], nr[2], limit)
        tags == DockerHubClient_get_image_tags(resp)
    IN  IF tags.raised THEN Did(tags, <<q>>)
        ELSE IF ~AllHave(tags.value, "name") THEN Did(Raise("KeyError"), <<q>>)
        ELSE LET result_tags == [i \in 1..Len(tags.value) |->
                                   [name |-> tags.value[i].name,
                                    last_updated |-> GetOr(tags.value[i], "last_updated", "None")]]
                 Match(t) == IsSubstring(tag_pattern, t.name)
             IN  Did(Return([type |-> "list[DockerTag]",
                             items |-> IF tag_pattern # "" THEN Filter(result_tags, Match)
                                       ELSE result_tags]),
                     <<q>>)

----------------------------------------------------------------------------
(* docker_explorer.py: the URL-taking report tools.  X_try is the body of  *)
(* the tool's try block, X the tool with its except clause.                *)

\* limit=5 of the tag listing analyze_repository asks for
TagsLimit == 5

Names(tags) == [i \in 1..Len(tags) |-> tags[i].name]

\* the body without "if response.status_code != 200: return ..."
analyze_repository_no_status_check(repository_url, r1, r2) ==
    LET p == analyze_repository_parse(repository_url)
    IN  IF p.raised \/ p.value.type = "str" THEN Did(p, <<>>)
        ELSE
        LET namespace == p.value.namespace
            repo_name == p.value.repo_name
            q1 == GetRepository(namespace, repo_name)
            q2 == GetTags(namespace, repo_name, TagsLimit)
        IN  IF r1.err THEN Did(Raise("ConnectionError"), <<q1>>)
            ELSE IF json(r1).raised THEN Did(json(r1), <<q1>>)
            ELSE
            LET repo_data == json(r1).value
                tags == DockerHubClient_get_image_tags(r2)
            IN  IF tags.raised THEN Did(tags, <<q1, q2>>)
                ELSE IF ~AllHave(tags.value, "name") THEN Did(Raise("KeyError"), <<q1, q2>>)
                ELSE Did(Return([type |-> "str", text |-> "# Docker Repository",
                                 full_repo_name |-> FullRepoName(namespace, repo_name),
                                 description |-> GetOr(repo_data, "description", "No description provided"),
                                 latest_tags |-> IF Len(tags.value) > 0 THEN Names(tags.value)
                                                 ELSE <<"No tags found for this repository.">>,
                                 pull_tag |-> IF Len(tags.value) > 0 THEN tags.value[1].name ELSE "latest"]),
                         <<q1, q2>>)

analyze_repository_try(repository_url, r1, r2) ==
    LET p == analyze_repository_parse(repository_url)
    IN  IF p.raised \/ p.value.type = "str" THEN Did(p, <<>>)
        ELSE
        LET namespace == p.value.namespace
            repo_name == p.value.repo_name
            full_repo_name == FullRepoName(namespace, repo_name)
            q1 == GetRepository(namespace, repo_name)
            q2 == GetTags(namespace, repo_name, TagsLimit)
        IN  IF r1.err THEN Did(Raise("ConnectionError"), <<q1>>)
            ELSE IF r1.status # 200
                 THEN Did(Return(TextOf("Could not retrieve information for repository", full_repo_name)), <<q1>>)
            ELSE IF json(r1).raised THEN Did(json(r1), <<q1>>)
            ELSE
            LET repo_data == json(r1).value
                tags == DockerHubClient_get_image_tags(r2)
            IN  IF tags.raised THEN Did(tags, <<q1, q2>>)
                ELSE IF ~AllHave(tags.value, "name") THEN Did(Raise("KeyError"), <<q1, q2>>)
                ELSE Did(Return([type |-> "str", text |-> "# Docker Repository",
                                 full_repo_name |-> full_repo_name,
                                 description |-> GetOr(repo_data, "description", "No description provided"),
                                 latest_tags |-> IF Len(tags.value) > 0 THEN Names(tags.value)
                                                 ELSE <<"No tags found for this repository.">>,
                                 pull_tag |-> IF Len(tags.value) > 0 THEN tags.value[1].name ELSE "latest"]),
                         <<q1, q2>>)

analyze_repository_uncaught(repository_url, r1, r2) ==
    analyze_repository_try(repository_url, r1, r2)

analyze_repository(repository_url, r1, r2) ==
    Caught(analyze_repository_try(repository_url, r1, r2), "Error analyzing repository")

\* the template chosen by repo_name == 'drupal', without .lower()
analyze_dockerfile_case_sensitive(repository_url, tag) ==
    LET p == analyze_dockerfile_parse(repository_url)
    IN  IF p.raised \/ p.value.type = "str" THEN Did(p, <<>>)
        ELSE Did(Return([type |-> "str", text |-> "# Dockerfile Analysis",
                         full_repo_name |-> FullRepoName(p.value.namespace, p.value.repo_name),
                         tag |-> tag,
                         dockerfile |-> IF p.value.repo_name = Str("drupal")
                                        THEN "FROM php:8.1-apache" ELSE "FROM base-image:version"]),
                 <<>>)

analyze_dockerfile_try(repository_url, tag) ==
    LET p == analyze_dockerfile_parse(repository_url)
    IN  IF p.raised \/ p.value.type = "str" THEN Did(p, <<>>)
        ELSE Did(Return([type |-> "str", text |-> "# Dockerfile Analysis",
                         full_repo_name |-> FullRepoName(p.value.namespace, p.value.repo_name),
                         tag |-> tag,
                         dockerfile |-> IF Lower(p.value.repo_name) = Str("drupal")
                                        THEN "FROM php:8.1-apache" ELSE "FROM base-image:version"]),
                 <<>>)

analyze_dockerfile(repository_url, tag) ==
    Caught(analyze_dockerfile_try(repository_url, tag), "Error analyzing Dockerfile")

\* lines 386-389: the first tag record named tag; KeyError on a record without a name before it
RECURSIVE FindTag(_, _)
FindTag(tags, tag) ==
    IF Len(tags) = 0 THEN Return([found |-> FALSE])
    ELSE IF "name" \notin DOMAIN tags[1] THEN Raise("KeyError")
    ELSE IF tags[1].name = tag THEN Return([found |-> TRUE, t |-> tags[1]])
    ELSE FindTag(Tail(tags), tag)

\* the family test without .lower()
Section5NoLower(repo_name) ==
    IF repo_name \in {Str("node"), Str("nodejs"), Str("javascript"), Str("js")}
    THEN "### 5. Node.js Specific Recommendations"
    ELSE IF repo_name \in {Str("python"), Str("django"), Str("flask")}
    THEN "### 5. Python Specific Recommendations"
    ELSE IF repo_name \in {Str("java"), Str("spring"), Str("maven"), Str("gradle")}
    THEN "### 5. Java Specific Recommendations"
    ELSE "absent"

\* lines 413-455: the four general recommendation sections
GeneralSections ==
    <<"### 1. Use Smaller Base Images", "### 2. Implement Multi-stage Builds",
      "### 3. Optimize Dockerfile Instructions", "### 4. Remove Unnecessary Files">>

\* JSON null
JsonNull == [null |-> TRUE]

\* a JSON number
JsonNumber(n) == [null |-> FALSE, number |-> n]

\* lines 403-407: size_mb = full_size / (1024 * 1024), shown as f"{size_mb:.2f} MB";
\* TypeError when full_size is null.  The text is given in hundredths of a MB
\* (exact for the sizes of the vocabulary, which are multiples of 1024 * 1024 / 4).
CurrentSize(target_tag) ==
    IF "full_size" \in DOMAIN target_tag
    THEN IF target_tag.full_size.null THEN Raise("TypeError")
         ELSE Return([known |-> TRUE,
                      mb_hundredths |-> (target_tag.full_size.number * 100) \div (1024 * 1024)])
    ELSE Return([known |-> FALSE])

\* lines 461-475
Section5(repo_name) ==
    IF Lower(repo_name) \in {Str("node"), Str("nodejs"), Str("javascript"), Str("js")}
    THEN "### 5. Node.js Specific Recommendations"
    ELSE IF Lower(repo_name) \in {Str("python"), Str("django"), Str("flask")}
    THEN "### 5. Python Specific Recommendations"
    ELSE IF Lower(repo_name) \in {Str("java"), Str("spring"), Str("maven"), Str("gradle")}
    THEN "### 5. Java Specific Recommendations"
    ELSE "absent"

optimize_image_size_try(repository_url, tag, r1, r2) ==
    LET p == optimize_image_size_parse(repository_url)
    IN  IF p.raised \/ p.value.type = "str" THEN Did(p, <<>>)
        ELSE
        LET namespace == p.value.namespace
            repo_name == p.value.repo_name
            full_repo_name == FullRepoName(namespace, repo_name)
            q1 == GetRepository(namespace, repo_name)
            q2 == GetTags(namespace, repo_name, 10)
        IN  IF r1.err THEN Did(Raise("ConnectionError"), <<q1>>)
            ELSE IF r1.status # 200
                 THEN Did(Return(TextOf("Could not retrieve information for repository", full_repo_name)), <<q1>>)
            ELSE IF json(r1).raised THEN Did(json(r1), <<q1>>)
            ELSE
            LET tags == DockerHubClient_get_image_tags(r2)
            IN  IF tags.raised THEN Did(tags, <<q1, q2>>)
                ELSE
                LET target_tag == FindTag(tags.value, tag)
                IN  IF target_tag.raised THEN Did(target_tag, <<q1, q2>>)
                    ELSE IF ~target_tag.value.found
                    THEN Did(Return([type |-> "str", text |-> "Could not find tag",
                                     tag |-> tag, full_repo_name |-> full_repo_name]), <<q1, q2>>)
                    ELSE IF CurrentSize(target_tag.value.t).raised
                    THEN Did(CurrentSize(target_tag.value.t), <<q1, q2>>)
                    ELSE Did(Return([type |-> "str", text |-> "# Size Optimization",
                                     full_repo_name |-> full_repo_name, tag |-> tag,
                                     current_size |-> CurrentSize(target_tag.value.t).value,
                                     sections |-> GeneralSections,
                                     section5 |-> Section5(repo_name)]),
                             <<q1, q2>>)

optimize_image_size(repository_url, tag, r1, r2) ==
    Caught(optimize_image_size_try(repository_url, tag, r1, r2), "Error optimizing image size")

\* the entries without .strip()
EntriesUnstripped(arg) == Split(arg, COMMA)

\* lines 583-587: the top-level volumes block
VolumesSectionNever(include_db) == <<>>

VolumesSection(include_db) == IF include_db THEN <<"db_data">> ELSE <<>>

\* lines 577-581: the top-level networks block
NetworksSection(include_db) == IF include_db THEN <<"app_network">> ELSE <<>>

\* lines 562-574: the db service
DbService(include_db) ==
    IF include_db
    THEN [present |-> TRUE, image |-> "mysql:5.7", networks |-> <<"app_network">>,
          volumes |-> <<"db_data:/var/lib/mysql">>]
    ELSE [present |-> FALSE]

\* lines 539-550: the entries of a comma-separated argument, each stripped
Entries(arg) ==
    LET items == Split(arg, COMMA)
    IN  [i \in 1..Len(items) |-> Strip(items[i])]

generate_docker_compose_try(repository_url, tag, port_mapping, environment_variables, include_db) ==
    LET p == generate_docker_compose_parse(repository_url)
    IN  IF p.raised \/ p.value.type = "str" THEN Did(p, <<>>)
        ELSE
        LET full_repo_name == FullRepoName(p.value.namespace, p.value.repo_name)
            service_name == DashToUnderscore(Lower(p.value.repo_name))
            ports == IF port_mapping # <<>>
                     THEN [key |-> TRUE, entries |-> Entries(port_mapping)] ELSE [key |-> FALSE]
            env == IF environment_variables # <<>>
                   THEN [key |-> TRUE, entries |-> Entries(environment_variables)] ELSE [key |-> FALSE]
            app == [name |-> service_name, image |-> full_repo_name \o <<COLON>> \o Str(tag),
                    ports |-> ports, environment |-> env,
                    depends_on |-> IF include_db THEN <<"db">> ELSE <<>>,
                    networks |-> IF include_db THEN <<"app_network">> ELSE <<>>]
        IN  Did(Return([type |-> "str", text |-> "# Docker Compose",
                        full_repo_name |-> full_repo_name, tag |-> tag,
                        app |-> app,
                        services |-> IF include_db THEN <<service_name, Str("db")>> ELSE <<service_name>>,
                        db |-> DbService(include_db),
                        networks_section |-> NetworksSection(include_db),
                        volumes_section |-> VolumesSection(include_db)]),
                <<>>)

generate_docker_compose(repository_url, tag, port_mapping, environment_variables, include_db) ==
    Caught(generate_docker_compose_try(repository_url, tag, port_mapping, environment_variables, include_db),
           "Error generating docker-compose.yml")

----------------------------------------------------------------------------
(* docker_explorer.py: the name-taking report tools *)

\* lines 611-612, 684-685, 795-798: f"library/{image_name}" for a name without '/'
Library(image_name) ==
    IF ~Contains(image_name, SLASH) THEN <<"library", SLASH>> \o image_name ELSE image_name

\* lines 618-643: the issue catalog
Issues == << [severity |-> "HIGH",   issue |-> "Running as root"],
             [severity |-> "MEDIUM", issue |-> "No health check"],
             [severity |-> "MEDIUM", issue |-> "Latest tag"],
             [severity |-> "LOW",    issue |-> "Large image size"] >>

\* the scan without the "continue" of lines 650-651
scan_security_keep_all(image_name, tag) ==
    Did(Return([type |-> "str", text |-> "Security scan",
                image_name |-> Library(image_name), tag |-> tag,
                relevant_issues |-> Issues]),
        <<>>)

scan_security_try(image_name, tag) ==
    LET name == Library(image_name)
        Relevant(issue) == ~(issue.issue = "Latest tag" /\ tag # "latest")
    IN  Did(Return([type |-> "str", text |-> "Security scan",
                    image_name |-> name, tag |-> tag,
                    relevant_issues |-> Filter(Issues, Relevant)]),
            <<>>)

scan_security(image_name, tag) == Caught(scan_security_try(image_name, tag), "Error scanning image")

\* lines 691-722
resource_profiles ==
    [web      |-> [cpu |-> "Medium", memory |-> "Medium", io |-> "High", network |-> "High"],
     database |-> [cpu |-> "Medium to High", memory |-> "High", io |-> "Very High", network |-> "Medium"],
     cache    |-> [cpu |-> "Low", memory |-> "High", io |-> "Medium", network |-> "Medium"],
     api      |-> [cpu |-> "Medium", memory |-> "Medium", io |-> "Low", network |-> "High"],
     batch    |-> [cpu |-> "High", memory |-> "Medium to High", io |-> "Medium to High", network |-> "Low"]]

\* lines 737-756 and 762-771: one branch per known type, nothing for any other
Orchestration(t) ==
    CASE t = "web"      -> <<"- Use horizontal scaling for increased traffic">>
      [] t = "database" -> <<"- Use persistent volumes for data storage">>
      [] t = "cache"    -> <<"- Use memory limits to prevent OOM issues">>
      [] t = "api"      -> <<"- Use auto-scaling based on CPU/memory usage">>
      [] t = "batch"    -> <<"- Use job controllers for managing batch processes">>
      [] OTHER          -> <<>>

Limits(t) ==
    CASE t = "web"      -> <<"cpu: 1", "memory: 512Mi">>
      [] t = "database" -> <<"cpu: 2", "memory: 2Gi">>
      [] t = "cache"    -> <<"cpu: 1", "memory: 1Gi">>
      [] t = "api"      -> <<"cpu: 1", "memory: 512Mi">>
      [] t = "batch"    -> <<"cpu: 2", "memory: 1Gi">>
      [] OTHER          -> <<>>

\* the lookup without .lower(): resource_profiles.get(app_type, resource_profiles["web"])
analyze_runtime_case_sensitive(image_name, tag, app_type) ==
    LET t == LowerWord(app_type)
    IN  Did(Return([type |-> "str", text |-> "## Runtime Analysis",
                    image_name |-> Library(image_name), tag |-> tag,
                    usage |-> IF app_type \in DOMAIN resource_profiles
                              THEN resource_profiles[app_type] ELSE resource_profiles["web"],
                    orchestration |-> Orchestration(t),
                    limits |-> Limits(t)]),
            <<>>)

analyze_runtime_try(image_name, tag, app_type) ==
    LET name == Library(image_name)
        t == LowerWord(app_type)
        profile == IF t \in DOMAIN resource_profiles THEN resource_profiles[t] ELSE resource_profiles["web"]
    IN  Did(Return([type |-> "str", text |-> "## Runtime Analysis",
                    image_name |-> name, tag |-> tag,
                    usage |-> profile,
                    orchestration |-> Orchestration(t),
                    limits |-> Limits(t)]),
            <<>>)

analyze_runtime(image_name, tag, app_type) ==
    Caught(analyze_runtime_try(image_name, tag, app_type), "Error analyzing runtime behavior")

\* lines 785-798: the reference with ':latest' appended when it holds no ':',
\* split at its first ':', the name library-normalised
ImageRef(image) ==
    LET full == IF ~Contains(image, COLON) THEN image \o <<COLON, "latest">> ELSE image
        nt == SplitFirst(full, COLON)
    IN  [image |-> full, name |-> Library(nt[1]), tag |-> nt[2]]

\* lines 811-820
image1_data ==
    [exposed_ports |-> <<"80/tcp">>,
     environment |-> <<"PATH=/usr/local/sbin:/usr/local/bin:/usr/sbin:/usr/bin:/sbin:/bin">>,
     cmd |-> <<"/bin/sh", "-c", "nginx -g 'daemon off;'">>]

\* lines 822-837: the second image's data, its ports and cmd replaced by the
\* first image's when the two references name the same image with different tags
image2_data(same_image_different_tags) ==
    [exposed_ports |-> IF same_image_different_tags THEN image1_data.exposed_ports
                       ELSE <<"80/tcp", "443/tcp">>,
     environment |-> <<"PATH=/usr/local/sbin:/usr/local/bin:/usr/sbin:/usr/bin:/sbin:/bin",
                       "NGINX_VERSION=1.22.1">>,
     cmd |-> IF same_image_different_tags THEN image1_data.cmd
             ELSE <<"/bin/sh", "-c", "nginx -g 'daemon off;'">>]

\* set(list)
SetOf(list) == { list[i] : i \in 1..Len(list) }

\* lines 800-935: the report on references a and b with data d1 and d2
Comparison(a, b, same_image_different_tags, d1, d2) ==
    LET added_ports == SetOf(d2.exposed_ports) \ SetOf(d1.exposed_ports)
        removed_ports == SetOf(d1.exposed_ports) \ SetOf(d2.exposed_ports)
        added_env == SetOf(d2.environment) \ SetOf(d1.environment)
        removed_env == SetOf(d1.environment) \ SetOf(d2.environment)
    IN  Did(Return([type |-> "str", text |-> "# Comparison",
                    image1 |-> a, image2 |-> b,
                    heading |-> IF same_image_different_tags
                                THEN "Comparing different versions of the same image"
                                ELSE "Comparing different images",
                    added_ports |-> added_ports, removed_ports |-> removed_ports,
                    ports_section |-> added_ports # {} \/ removed_ports # {},
                    added_env |-> added_env, removed_env |-> removed_env,
                    env_section |-> added_env # {} \/ removed_env # {},
                    cmd_section |-> d1.cmd # d2.cmd,
                    migration |-> same_image_different_tags]),
            <<>>)

\* the differences taken the other way round
compare_images_swapped(image1, image2) ==
    LET a == ImageRef(image1)
        b == ImageRef(image2)
        same_image_different_tags == a.name = b.name /\ a.tag # b.tag
    IN  Comparison(a, b, same_image_different_tags, image2_data(same_image_different_tags), image1_data)

\* the same-image test on the names alone
compare_images_same_name(image1, image2) ==
    LET a == ImageRef(image1)
        b == ImageRef(image2)
        same_image_different_tags == a.name = b.name
    IN  Comparison(a, b, same_image_different_tags, image1_data, image2_data(same_image_different_tags))

compare_images_try(image1, image2) ==
    LET a == ImageRef(image1)
        b == ImageRef(image2)
        same_image_different_tags == a.name = b.name /\ a.tag # b.tag
    IN  Comparison(a, b, same_image_different_tags, image1_data, image2_data(same_image_different_tags))

compare_images(image1, image2) == Caught(compare_images_try(image1, image2), "Error comparing images")

----------------------------------------------------------------------------
(* docker_mcp_server_sample.py: the Hub client and the search tools *)

sample_DockerHubClient_search_images(resp) == ResultsOrEmpty(resp)

sample_DockerHubClient_get_image_tags(resp) == ResultsOrEmpty(resp)

sample_DockerHubClient_search_users(resp) == ResultsOrEmpty(resp)

sample_search_images(resp) ==
    LET results == sample_DockerHubClient_search_images(resp)
    IN  IF results.raised THEN Did(results, <<GetSearchRepositories>>)
        ELSE IF ~AllHave(results.value, "repo_name") THEN Did(Raise("KeyError"), <<GetSearchRepositories>>)
        ELSE Did(Return([type |-> "list[DockerImage]",
                         items |-> [i \in 1..Len(results.value) |->
                                      [name |-> results.value[i].repo_name, tag |-> "latest",
                                       stars |-> GetOr(results.value[i], "star_count", "None")]]]),
                 <<GetSearchRepositories>>)

sample_search_users(resp) ==
    LET results == sample_DockerHubClient_search_users(resp)
    IN  IF results.raised THEN Did(results, <<GetSearchUsers>>)
        ELSE IF ~AllHave(results.value, "username") THEN Did(Raise("KeyError"), <<GetSearchUsers>>)
        ELSE Did(Return([type |-> "list[DockerUser]",
                         items |-> [i \in 1..Len(results.value) |->
                                      [username |-> results.value[i].username,
                                       is_organization |-> GetOr(results.value[i], "type", "") = "organization"]]]),
                 <<GetSearchUsers>>)

sample_search_tags_split(image_name) ==
    IF Contains(image_name, SLASH)
    THEN SplitFirst(image_name, SLASH)
    ELSE <<Str("library"), image_name>>

\* lines 209-211: t["name"] is read record by record, in the filter before the result
sample_search_tags(image_name, tag_pattern, limit, resp) ==
    LET nr   == sample_search_tags_split(image_name)
        q    == GetTags(nr[1], nr[2], limit)
        tags == sample_DockerHubClient_get_image_tags(resp)
    IN  IF tags.raised THEN Did(tags, <<q>>)
        ELSE IF ~AllHave(tags.value, "name") THEN Did(Raise("KeyError"), <<q>>)
        ELSE LET Match(n) == IsSubstring(tag_pattern, n)
             IN  Did(Return([type |-> "list[str]",
                             items |-> IF tag_pattern # "" THEN Filter(Names(tags.value), Match)
                                       ELSE Names(tags.value)]),
                     <<q>>)

----------------------------------------------------------------------------
(* docker_mcp_server_sample.py: DockerRegistryClient.get_manifest and its  *)
(* two callers.  A call blocks twice on the network, so it runs in steps:  *)
(* the token request, the token answer (which updates the shared session), *)
(* the manifest request (which reads the shared session), its answer.      *)

AcceptManifestV2 == "application/vnd.docker.distribution.manifest.v2+json"

\* lines 121-122
get_manifest_repository(repository) ==
    IF ~Contains(repository, SLASH) THEN <<"library", SLASH>> \o repository ELSE repository

\* the token auth.docker.io issues for a pull scope
TokenFor(repository) == [scope |-> repository]

Bearer(token) == [scheme |-> "Bearer", token |-> token]

NoHeader == [scheme |-> "absent"]

TokenRequest(repository) ==
    [method |-> "GET", url |-> "https://auth.docker.io/token", scope |-> repository]

ManifestRequest(repository, reference, headers) ==
    [method |-> "GET", url |-> "/v2/{repository}/manifests/{reference}",
     repository |-> repository, reference |-> reference,
     Accept |-> headers.Accept, Authorization |-> headers.Authorization]

\* lines 126-130: what the token answer makes of the call
auth_outcome_unchecked(resp) ==
    IF resp.err THEN Raise("ConnectionError")
    ELSE LET j == json(resp)
         IN  IF j.raised THEN j ELSE Item(j.value, "token")

auth_outcome(resp) ==
    IF resp.err THEN Raise("ConnectionError")
    ELSE IF resp.status # 200 THEN Raise("Failed to authenticate")
    ELSE LET j == json(resp)
         IN  IF j.raised THEN j ELSE Item(j.value, "token")

\* lines 134-140: what the manifest answer makes of the call
manifest_outcome(resp) ==
    IF resp.err THEN Raise("ConnectionError")
    ELSE IF resp.status # 200 THEN Raise("Failed to get manifest")
    ELSE json(resp)

\* the total with "total_size = size" in place of "total_size += size"
TotalSizeLast(layers) ==
    IF Len(layers) = 0 THEN 0 ELSE GetOr(layers[Len(layers)], "size", 0)

\* f"{total_size / 1024 / 1024:.2f} MB", in hundredths of a MB, rounded to the
\* nearest (no size of the vocabulary lies on a tie)
SizeMB(size) == (size * 200 + 1024 * 1024) \div (2 * 1024 * 1024)

\* sum(layer.get("size", 0) for layer in layers)
RECURSIVE TotalSize(_)
TotalSize(layers) ==
    IF Len(layers) = 0 THEN 0
    ELSE GetOr(layers[1], "size", 0) + TotalSize(Tail(layers))

\* lines 240-272: get_image_details around the outcome m of get_manifest;
\* errors is what it hands to ctx.error
get_image_details_finish(image_name, tag, m) ==
    IF m.raised
    THEN [errors |-> <<TextOf("Error getting image details", m.exc)>>,
          out |-> Return([type |-> "ImageDetail", name |-> image_name, tag |-> tag,
                          layers |-> <<>>, total_size |-> 0])]
    ELSE LET layers == GetOr(m.value, "layers", <<>>)
         IN  [errors |-> <<>>,
              out |-> Return([type |-> "ImageDetail", name |-> image_name, tag |-> tag,
                              digest |-> GetOr(GetOr(m.value, "config", NoFields), "digest", ""),
                              layers |-> [i \in 1..Len(layers) |->
                                            [digest |-> GetOr(layers[i], "digest", ""),
                                             size |-> GetOr(layers[i], "size", 0)]],
                              total_size |-> TotalSize(layers)])]

\* lines 298-317: get_image_resource around the outcome m of get_manifest
get_image_resource_finish(name, tag, m) ==
    IF m.raised
    THEN [errors |-> <<TextOf("Error retrieving image details", m.exc)>>,
          out |-> Return([type |-> "str", text |-> "Error retrieving image details.",
                          name |-> name, tag |-> tag])]
    ELSE LET layers == GetOr(m.value, "layers", <<>>)
         IN  [errors |-> <<>>,
              out |-> Return([type |-> "str", text |-> "# {name}:{tag}", name |-> name, tag |-> tag,
                              digest |-> GetOr(GetOr(m.value, "config", NoFields), "digest", ""),
                              total_size |-> TotalSize(layers),
                              size_mb |-> SizeMB(TotalSize(layers)),
                              layer_count |-> Len(layers),
                              layers |-> [i \in 1..Len(layers) |->
                                            [digest |-> GetOr(layers[i], "digest", ""),
                                             size_mb |-> SizeMB(GetOr(layers[i], "size", 0))]]])]

Finish(caller, name, tag, m) ==
    IF caller = "get_image_details" THEN get_image_details_finish(name, tag, m)
    ELSE get_image_resource_finish(name, tag, m)

----------------------------------------------------------------------------
(* Inputs *)

SeqsUpTo(S, n) == UNION { [1..k -> S] : k \in 0..n }

Segment(w) == IF w = "" THEN <<>> ELSE <<w>>

PathWords == {"", "r", "docker", "repository", "library", "docker-app"}

\* "https://hub.docker.com" and "https://example.org", split at '/'
Hosts == { << <<"https", COLON>>, <<>>, <<"hub.docker.com">> >>,
           << <<"https", COLON>>, <<>>, <<"example.org">> >> }

Segments(path) == [i \in 1..Len(path) |-> Segment(path[i])]

\* the paths given on host h
PathsOn(h) == SeqsUpTo(PathWords, IF InDockerCom(Join(h, SLASH)) THEN MaxPath ELSE MaxOffHubPath)

URLs == UNION { { Join(h \o Segments(path), SLASH) : path \in PathsOn(h) } : h \in Hosts }

HubUrl(path) == Join(<< <<"https", COLON>>, <<>>, <<"hub.docker.com">> >> \o Segments(path), SLASH)

\* URLs given with every remote answer and every other argument
SampleUrls == { HubUrl(<<"r", "library", "drupal">>),
                HubUrl(<<"r", "library", "Drupal">>),
                HubUrl(<<"r", "library", "Node">>),
                HubUrl(<<"r", "library", "python">>),
                HubUrl(<<"r", "library", "Java">>),
                HubUrl(<<"repository", "docker", "jar285", "drupal", "general">>) }

NameWords == {"", "nginx", "library"}

ImageNames == { Join(Segments(parts), SLASH) : parts \in SeqsUpTo(NameWords, MaxNameParts) \ {<<>>} }

Tags == {"latest", "1.0"}

ImageRefs == ImageNames
             \cup { n \o <<COLON, t>> : n \in ImageNames, t \in Tags }
             \cup { <<"localhost", COLON, "5000", SLASH, "img">> }

\* references compared with every reference, as first and as second image
SampleRefs == { <<"nginx">>,
                <<"nginx", COLON, "1.0">>,
                <<"library", SLASH, "nginx">>,
                <<"library", SLASH, "nginx", COLON, "latest">>,
                <<"library", SLASH, "nginx", COLON, "1.0">>,
                <<"localhost", COLON, "5000", SLASH, "img">> }

\* the pairs of references given to compare_images
RefPairs == (SampleRefs \X ImageRefs) \cup (ImageRefs \X SampleRefs)

\* tags given to scan_security: 'latest', and values that differ from it in case or by emptiness
ScanTags == Tags \cup {"Latest", ""}

AppTypes == {"web", "WEB", "database", "cache", "Cache", "api", "batch", "worker", ""}

TagPatterns == {"", "alpine", "1.0"}

PortMappings == { <<>>,
                  <<SPACE>>,
                  <<"8080", COLON, "80", COMMA>>,
                  <<"8080", COLON, "80">>,
                  <<"8080", COLON, "80", COMMA, "443", COLON, "443">>,
                  <<SPACE, "8080", COLON, "80", SPACE, COMMA, SPACE, "443", COLON, "443">> }

EnvironmentVariables == { <<>>, <<"DB_NAME=mydb", COMMA, "DB_USER=user">> }

ImageRecords == { [repo_name |-> "library/nginx", star_count |-> 5], NoFields }

UserRecords == { [username |-> "jar285", type |-> "organization"], NoFields }

TagRecords == { [name |-> "latest", last_updated |-> "2024-01-01"],
                [name |-> "1.0-alpine", full_size |-> JsonNumber(1048576)],
                [name |-> "1.0", full_size |-> JsonNumber(1572864)],
                [name |-> "latest", full_size |-> JsonNull, last_updated |-> "2024-01-01"],
                NoFields }

ListAnswers(records) ==
    {NoAnswer}
    \cup { Answer(st, b) : st \in Statuses,
                           b \in {NotJson, Json(NoFields)}
                                 \cup { Json([results |-> l]) : l \in SeqsUpTo(records, MaxResults) } }

DetailsAnswers ==
    {NoAnswer}
    \cup { Answer(st, b) : st \in Statuses,
                           b \in {NotJson, Json(NoFields), Json([description |-> "CMS", star_count |-> 7])} }

DefaultDetails == Answer(200, Json([description |-> "CMS", star_count |-> 7]))

DefaultTags == Answer(200, Json([results |-> << [name |-> "latest", last_updated |-> "2024-01-01"] >>]))

\* the answers a URL is given with
DetailsFor(url) == IF url \in SampleUrls THEN DetailsAnswers ELSE {DefaultDetails}

\* a remote that lists one tag more than the page size it was asked for
LongListing == Answer(200, Json([results |-> [i \in 1..(TagsLimit + 1) |-> [name |-> "latest"]]]))

TagsFor(url) == IF url \in SampleUrls THEN ListAnswers(TagRecords) \cup {LongListing} ELSE {DefaultTags}

\* image names given with every tag pattern and every remote answer
SampleNames == { Str("nginx"), <<"library", SLASH, "nginx">> }

\* the patterns and answers an image name is given with
TagPatternsFor(image_name) == IF image_name \in SampleNames THEN TagPatterns ELSE {""}

TagListingsFor(image_name) == IF image_name \in SampleNames THEN ListAnswers(TagRecords) ELSE {DefaultTags}

RegistryNames == { Str("nginx"), <<"user", SLASH, "repo">> }

Callers == {"get_image_details", "get_image_resource"}

AuthAnswers(repository) ==
    {NoAnswer}
    \cup { Answer(st, b) : st \in Statuses,
                           b \in {NotJson, Json(NoFields), Json([token |-> TokenFor(repository)])} }

LayerRecords == { [digest |-> "sha256:a", size |-> 1572864], [digest |-> "sha256:b"] }

Manifests == {NoFields}
             \cup { [layers |-> l, config |-> [digest |-> "sha256:c"]] : l \in SeqsUpTo(LayerRecords, MaxResults) }

ManifestAnswers ==
    {NoAnswer}
    \cup { Answer(st, b) : st \in Statuses, b \in {NotJson} \cup { Json(m) : m \in Manifests } }

Slots == 1..NumCalls

----------------------------------------------------------------------------
(* The state machine *)

Explorer == "docker_explorer.py"

Sample == "docker_mcp_server_sample.py"

\* a tool that ran in one step: the answers it consumed, what it issued, how it ended
Ran(tool, file, args, answers, did) ==
    [tool |-> tool, file |-> file, args |-> args,
     answers |-> SubSeq(answers, 1, Len(did.reqs)),
     reqs |-> did.reqs, out |-> did.out]

\* the host has no invocation in progress and holds no result it has not taken
Idle == call.tool = "none" /\ \A p \in Slots : pc[p] = "idle"

Init ==
    /\ call = [tool |-> "none"]
    /\ pc = [p \in Slots |-> "idle"]
    /\ req = [p \in Slots |-> [caller |-> "none"]]
    /\ session = [Accept |-> AcceptManifestV2, Authorization |-> NoHeader]

Registry == <<pc, req, session>>

\* a method of a server file's DockerHubClient, on the answer to its GET
ClientMethod(file, m, resp) ==
    CASE file = Explorer /\ m = "search_images"  -> DockerHubClient_search_images(resp)
      [] file = Explorer /\ m = "get_image_tags" -> DockerHubClient_get_image_tags(resp)
      [] file = Explorer /\ m = "search_users"   -> DockerHubClient_search_users(resp)
      [] file = Sample /\ m = "search_images"    -> sample_DockerHubClient_search_images(resp)
      [] file = Sample /\ m = "get_image_tags"   -> sample_DockerHubClient_get_image_tags(resp)
      [] file = Sample /\ m = "search_users"     -> sample_DockerHubClient_search_users(resp)

\* a tool calls a method of the Hub client
ClientCall ==
    /\ Idle
    /\ \E file \in {Explorer, Sample} :
       \E m \in {"search_images", "get_image_tags", "search_users"} :
       \E resp \in ListAnswers(IF m = "search_images" THEN ImageRecords
                               ELSE IF m = "get_image_tags" THEN TagRecords ELSE UserRecords) :
          call' = [tool |-> "DockerHubClient", file |-> file, method |-> m, answers |-> <<resp>>,
                   out |-> ClientMethod(file, m, resp)]
    /\ UNCHANGED Registry

SearchImages ==
    /\ Idle
    /\ \E file \in {Explorer, Sample} : \E resp \in ListAnswers(ImageRecords) :
          call' = Ran("search_images", file, <<>>, <<resp>>,
                      IF file = Explorer THEN search_images(resp) ELSE sample_search_images(resp))
    /\ UNCHANGED Registry

SearchUsers ==
    /\ Idle
    /\ \E file \in {Explorer, Sample} : \E resp \in ListAnswers(UserRecords) :
          call' = Ran("search_users", file, <<>>, <<resp>>,
                      IF file = Explorer THEN search_users(resp) ELSE sample_search_users(resp))
    /\ UNCHANGED Registry

SearchTags ==
    /\ Idle
    /\ \E file \in {Explorer, Sample} : \E image_name \in ImageNames :
       \E tag_pattern \in TagPatternsFor(image_name) : \E resp \in TagListingsFor(image_name) :
          call' = Ran("search_tags", file,
                      [image_name |-> image_name, tag_pattern |-> tag_pattern, limit |-> 25], <<resp>>,
                      IF file = Explorer THEN search_tags(image_name, tag_pattern, 25, resp)
                      ELSE sample_search_tags(image_name, tag_pattern, 25, resp))
    /\ UNCHANGED Registry

AnalyzeRepository ==
    /\ Idle
    /\ \E url \in URLs \cup SampleUrls : \E r1 \in DetailsFor(url) : \E r2 \in TagsFor(url) :
          call' = Ran("analyze_repository", Explorer, [repository_url |-> url], <<r1, r2>>,
                      analyze_repository(url, r1, r2))
    /\ UNCHANGED Registry

AnalyzeDockerfile ==
    /\ Idle
    /\ \E url \in URLs \cup SampleUrls : \E tag \in (IF url \in SampleUrls THEN Tags ELSE {"latest"}) :
          call' = Ran("analyze_dockerfile", Explorer, [repository_url |-> url, tag |-> tag], <<>>,
                      analyze_dockerfile(url, tag))
    /\ UNCHANGED Registry

OptimizeImageSize ==
    /\ Idle
    /\ \E url \in URLs \cup SampleUrls : \E tag \in (IF url \in SampleUrls THEN Tags ELSE {"latest"}) :
       \E r1 \in DetailsFor(url) : \E r2 \in TagsFor(url) :
          call' = Ran("optimize_image_size", Explorer, [repository_url |-> url, tag |-> tag], <<r1, r2>>,
                      optimize_image_size(url, tag, r1, r2))
    /\ UNCHANGED Registry

GenerateDockerCompose ==
    /\ Idle
    /\ \E url \in URLs \cup SampleUrls :
       \E tag \in (IF url \in SampleUrls THEN Tags ELSE {"latest"}) :
       \E port_mapping \in (IF url \in SampleUrls THEN PortMappings ELSE {<<>>}) :
       \E environment_variables \in (IF url \in SampleUrls THEN EnvironmentVariables ELSE {<<>>}) :
       \E include_db \in (IF url \in SampleUrls THEN BOOLEAN ELSE {FALSE}) :
          call' = Ran("generate_docker_compose", Explorer,
                      [repository_url |-> url, tag |-> tag, port_mapping |-> port_mapping,
                       environment_variables |-> environment_variables, include_db |-> include_db],
                      <<>>,
                      generate_docker_compose(url, tag, port_mapping, environment_variables, include_db))
    /\ UNCHANGED Registry

ScanSecurity ==
    /\ Idle
    /\ \E image_name \in ImageNames : \E tag \in ScanTags :
          call' = Ran("scan_security", Explorer, [image_name |-> image_name, tag |-> tag], <<>>,
                      scan_security(image_name, tag))
    /\ UNCHANGED Registry

AnalyzeRuntime ==
    /\ Idle
    /\ \E image_name \in ImageNames : \E tag \in Tags : \E app_type \in AppTypes :
          call' = Ran("analyze_runtime", Explorer,
                      [image_name |-> image_name, tag |-> tag, app_type |-> app_type], <<>>,
                      analyze_runtime(image_name, tag, app_type))
    /\ UNCHANGED Registry

CompareImages ==
    /\ Idle
    /\ \E pair \in RefPairs :
          call' = Ran("compare_images", Explorer, [image1 |-> pair[1], image2 |-> pair[2]], <<>>,
                      compare_images(pair[1], pair[2]))
    /\ UNCHANGED Registry

\* the host takes the result of a tool that ran in one step
TakeResult ==
    /\ call.tool # "none"
    /\ call' = [tool |-> "none"]
    /\ UNCHANGED Registry

\* the host hands a get_image_details or get_image_resource invocation to slot p:
\* lines 121-126, up to the token request
Start(p, caller, name, tag) ==
    /\ pc[p] = "idle"
    /\ LET repository == get_manifest_repository(name)
       IN  req' = [req EXCEPT ![p] = [caller |-> caller, name |-> name, tag |-> tag,
                                      repository |-> repository,
                                      issued |-> <<TokenRequest(repository)>>]]
    /\ pc' = [pc EXCEPT ![p] = "auth"]
    /\ UNCHANGED <<call, session>>

\* one invocation at a time
Dispatch ==
    /\ Idle
    /\ \E p \in Slots : \E caller \in Callers : \E name \in RegistryNames : Start(p, caller, name, "latest")

\* the host dispatches while other invocations are still in progress
DispatchParallel ==
    \E p \in Slots : \E caller \in Callers : \E name \in RegistryNames : Start(p, caller, name, "latest")

\* the call ends: get_manifest returned or raised m, the caller makes its result of it
Ended(p, m) == req[p] @@ [gm |-> m] @@ Finish(req[p].caller, req[p].name, req[p].tag, m)

\* the token answer arrives at a client that keeps the first token it was
\* given for all later calls
AuthAnswerKeepFirst(p) ==
    /\ pc[p] = "auth"
    /\ \E resp \in AuthAnswers(req[p].repository) :
          LET t == auth_outcome(resp)
              r == [auth |-> resp] @@ req[p]
          IN  IF t.raised
              THEN /\ req' = [req EXCEPT ![p] = [auth |-> resp] @@ Ended(p, t)]
                   /\ pc' = [pc EXCEPT ![p] = "done"]
                   /\ UNCHANGED session
              ELSE /\ req' = [req EXCEPT ![p] = [token |-> t.value] @@ r]
                   /\ session' = IF session.Authorization = NoHeader
                                 THEN [session EXCEPT !.Authorization = Bearer(t.value)]
                                 ELSE session
                   /\ pc' = [pc EXCEPT ![p] = "send"]
    /\ UNCHANGED call

\* the token answer arrives at a client that puts the token of the answer on
\* the session before it looks at the status
AuthAnswerHeaderFirst(p) ==
    /\ pc[p] = "auth"
    /\ \E resp \in AuthAnswers(req[p].repository) :
          LET t == auth_outcome(resp)
              u == auth_outcome_unchecked(resp)
              r == [auth |-> resp] @@ req[p]
          IN  IF t.raised
              THEN /\ req' = [req EXCEPT ![p] = [auth |-> resp] @@ Ended(p, t)]
                   /\ pc' = [pc EXCEPT ![p] = "done"]
                   /\ session' = IF u.raised THEN session
                                 ELSE [session EXCEPT !.Authorization = Bearer(u.value)]
              ELSE /\ req' = [req EXCEPT ![p] = [token |-> t.value] @@ r]
                   /\ session' = [session EXCEPT !.Authorization = Bearer(t.value)]
                   /\ pc' = [pc EXCEPT ![p] = "send"]
    /\ UNCHANGED call

\* lines 126-131: the token answer arrives
AuthAnswer(p) ==
    /\ pc[p] = "auth"
    /\ \E resp \in AuthAnswers(req[p].repository) :
          LET t == auth_outcome(resp)
              r == [auth |-> resp] @@ req[p]
          IN  IF t.raised
              THEN /\ req' = [req EXCEPT ![p] = [auth |-> resp] @@ Ended(p, t)]
                   /\ pc' = [pc EXCEPT ![p] = "done"]
                   /\ UNCHANGED session
              ELSE /\ req' = [req EXCEPT ![p] = [token |-> t.value] @@ r]
                   /\ session' = [session EXCEPT !.Authorization = Bearer(t.value)]
                   /\ pc' = [pc EXCEPT ![p] = "send"]
    /\ UNCHANGED call

\* lines 134-136: session.get merges the session's headers into the manifest request
SendManifest(p) ==
    /\ pc[p] = "send"
    /\ req' = [req EXCEPT ![p].issued =
                   Append(@, ManifestRequest(req[p].repository, req[p].tag, session))]
    /\ pc' = [pc EXCEPT ![p] = "manifest"]
    /\ UNCHANGED <<call, session>>

\* lines 137-140: the manifest answer arrives
ManifestAnswer(p) ==
    /\ pc[p] = "manifest"
    /\ \E resp \in ManifestAnswers :
          req' = [req EXCEPT ![p] = [manifest |-> resp] @@ Ended(p, manifest_outcome(resp))]
    /\ pc' = [pc EXCEPT ![p] = "done"]
    /\ UNCHANGED <<call, session>>

\* the host takes the result; the slot is free again
Complete(p) ==
    /\ pc[p] = "done"
    /\ req' = [req EXCEPT ![p] = [caller |-> "none"]]
    /\ pc' = [pc EXCEPT ![p] = "idle"]
    /\ UNCHANGED <<call, session>>

Next ==
    \/ ClientCall
    \/ SearchImages
    \/ SearchUsers
    \/ SearchTags
    \/ AnalyzeRepository
    \/ AnalyzeDockerfile
    \/ OptimizeImageSize
    \/ GenerateDockerCompose
    \/ ScanSecurity
    \/ AnalyzeRuntime
    \/ CompareImages
    \/ TakeResult
    \/ Dispatch
    \/ \E p \in Slots : AuthAnswer(p)
    \/ \E p \in Slots : SendManifest(p)
    \/ \E p \in Slots : ManifestAnswer(p)
    \/ \E p \in Slots : Complete(p)

\* the servers with one invocation in progress at a time
Spec == Init /\ [][Next]_vars

NextParallel ==
    \/ DispatchParallel
    \/ \E p \in Slots : AuthAnswer(p)
    \/ \E p \in Slots : SendManifest(p)
    \/ \E p \in Slots : ManifestAnswer(p)
    \/ \E p \in Slots : Complete(p)

\* the sample server with get_manifest calls dispatched in parallel
SpecParallel == Init /\ [][NextParallel]_vars

----------------------------------------------------------------------------
(* Properties *)

SearchTools == {"search_images", "search_tags", "search_users"}

UrlTools == {"analyze_repository", "analyze_dockerfile", "optimize_image_size", "generate_docker_compose"}

NameTools == {"scan_security", "analyze_runtime", "compare_images"}

ReportTools == UrlTools \cup NameTools

ErrorTexts == {"Error analyzing repository", "Error analyzing Dockerfile", "Error optimizing image size",
               "Error generating docker-compose.yml", "Error scanning image",
               "Error analyzing runtime behavior", "Error comparing images"}

\* the answer to a one-step tool's i-th request failed it: no answer at all, or
\* a 200 answer without the JSON field the tool reads
TransportFailure(c) == \E i \in 1..Len(c.answers) : c.answers[i].err

\* get_manifest of slot p was answered with a non-200 status
Refused(p) ==
    \/ "auth" \in DOMAIN req[p] /\ ~req[p].auth.err /\ req[p].auth.status # 200
    \/ "manifest" \in DOMAIN req[p] /\ ~req[p].manifest.err /\ req[p].manifest.status # 200

\* C1: every tool of both server files catches any exception raised while it
\* runs and returns a plain-text "Error <doing X>: <message>"; no exception
\* propagates out of a tool to the host.
C1_NoExceptionLeavesATool ==
    /\ call.tool \in SearchTools \cup ReportTools => ~call.out.raised
    /\ call.tool \in SearchTools \cup ReportTools /\ TransportFailure(call)
          => ~call.out.raised /\ call.out.value.type = "str" /\ call.out.value.text \in ErrorTexts
    /\ \A p \in Slots :
          pc[p] = "done" /\ req[p].caller = "get_image_details" /\ req[p].gm.raised
             => ~req[p].out.raised /\ req[p].out.value.type = "str"

\* C2: each of the seven report tools returns a string and never raises, for
\* every argument value and every remote outcome (any status, any JSON shape,
\* a transport exception).
C2_ReportToolsReturnStr ==
    call.tool \in ReportTools => ~call.out.raised /\ call.out.value.type = "str"

\* a report tool met a transport exception after a successful details request
\* and returned its "Error ..." text
C2_Witness ==
    /\ call.tool = "analyze_repository"
    /\ Len(call.answers) = 2
    /\ call.answers[2] = NoAnswer
    /\ call.out = Return(TextOf("Error analyzing repository", "ConnectionError"))

\* C3: DockerHubClient.search_images, get_image_tags and search_users return
\* the response's results list when the status is 200 (and the body holds one)
\* and the empty list, without raising, for every other status; a non-200
\* answer gives the caller what a 200 answer with no results gives.
C3_ResultsOn200EmptyOtherwise ==
    call.tool = "DockerHubClient" /\ ~call.answers[1].err =>
        LET resp == call.answers[1]
        IN  /\ resp.status = 200 /\ resp.body.json /\ "results" \in DOMAIN resp.body.obj
                => call.out = Return(resp.body.obj.results)
            /\ resp.status # 200
                => /\ call.out = Return(<<>>)
                   /\ call.out = ClientMethod(call.file, call.method, Answer(200, Json([results |-> <<>>])))

\* a 404 answer whose body holds two records: the caller gets the empty list
C3_Witness ==
    /\ call.tool = "DockerHubClient"
    /\ call.method = "get_image_tags"
    /\ ~call.answers[1].err
    /\ call.answers[1].status = 404
    /\ call.answers[1].body.json
    /\ "results" \in DOMAIN call.answers[1].body.obj
    /\ Len(call.answers[1].body.obj.results) = 2
    /\ call.out = Return(<<>>)

\* C4: when the token exchange or the manifest fetch answers with a non-200
\* status, the failure raised by the registry client is caught in both
\* callers, get_image_details and get_image_resource, and each returns to its
\* caller a human-readable error string.
C4_CallersReturnAnErrorString ==
    \A p \in Slots :
        pc[p] = "done" /\ Refused(p)
           => /\ req[p].gm.raised
              /\ ~req[p].out.raised
              /\ req[p].out.value.type = "str"

C6_ManifestRequestCarriesOwnToken ==
    \A p \in Slots :
        req[p].caller # "none" =>
            \A i \in 1..Len(req[p].issued) :
                req[p].issued[i].url = "/v2/{repository}/manifests/{reference}"
                   => req[p].issued[i].Authorization = Bearer(TokenFor(req[p].repository))

\* the '/'-separated segments of the URL a URL-taking tool was given
Parts(c) == Split(c.args.repository_url, SLASH)

\* segment i is followed by two non-empty segments
PairAfter(parts, i) == i + 2 <= Len(parts) /\ parts[i+1] # <<>> /\ parts[i+2] # <<>>

IsFirst(parts, i, w) == parts[i] = Str(w) /\ \A j \in 1..(i-1) : parts[j] # Str(w)

ParseFailure(c) == c.out \in {Return(MsgInvalidUrl), Return(MsgNoParse)}

\* the tool went on with namespace ns and repository rn: it is no parse
\* failure, and the repository it names and the requests it issues are ns/rn
ParsedAs(c, ns, rn) ==
    /\ ~c.out.raised
    /\ ~ParseFailure(c)
    /\ c.out.value.text \notin ErrorTexts \/ Len(c.reqs) > 0
    /\ "full_repo_name" \in DOMAIN c.out.value => c.out.value.full_repo_name = FullRepoName(ns, rn)
    /\ \A i \in 1..Len(c.reqs) : c.reqs[i].namespace = ns /\ c.reqs[i].repository = rn

\* C7: in each URL-taking tool, every input without 'docker.com' yields
\* 'Please provide a valid Docker Hub repository URL', and every input with
\* 'docker.com' in which no 'docker' or 'r' segment is followed by two
\* non-empty segments yields 'Could not parse repository information from the
\* URL'; neither raises nor takes the 'Error ...' path.
C7_ParseFailureMessages ==
    call.tool \in UrlTools =>
        LET url == call.args.repository_url
            parts == Parts(call)
            located == \E i \in 1..Len(parts) :
                          parts[i] \in {Str("docker"), Str("r")} /\ PairAfter(parts, i)
        IN  /\ ~InDockerCom(url) => call.out = Return(MsgInvalidUrl)
            /\ InDockerCom(url) /\ ~located => call.out = Return(MsgNoParse)

\* a Docker Hub URL that ends in the segment 'r': generate_docker_compose
\* answers 'Could not parse ...'
C7_Witness ==
    /\ call.tool = "generate_docker_compose"
    /\ InDockerCom(call.args.repository_url)
    /\ Parts(call)[Len(Parts(call))] = Str("r")
    /\ \A i \in 1..(Len(Parts(call)) - 1) : Parts(call)[i] \notin {Str("docker"), Str("r")}
    /\ call.out = Return(MsgNoParse)

\* C8: for every URL that contains 'docker.com', whose first segment equal to
\* 'r' is followed by two non-empty segments, and that has no 'repository'
\* segment immediately followed by a 'docker' segment, the parser yields the
\* two segments after that 'r' as namespace and repository, whatever their
\* names are.
C8_RFormYieldsTheTwoSegmentsAfterR ==
    call.tool \in UrlTools =>
        LET parts == Parts(call)
        IN  \A i \in 1..Len(parts) :
               /\ InDockerCom(call.args.repository_url)
               /\ IsFirst(parts, i, "r")
               /\ PairAfter(parts, i)
               /\ ~\E j \in 1..(Len(parts) - 1) :
                      parts[j] = Str("repository") /\ parts[j+1] = Str("docker")
               => ParsedAs(call, parts[i+1], parts[i+2])

\* C9: for every URL that contains 'docker.com' and has a 'repository' segment
\* immediately followed by a 'docker' segment that is followed by two
\* non-empty segments, the parser yields the two segments after that 'docker'
\* segment, also when another 'docker' segment occurs earlier in the URL.
C9_RepositoryFormYieldsTheTwoSegmentsAfterDocker ==
    call.tool \in UrlTools =>
        LET parts == Parts(call)
        IN  \A i \in 2..Len(parts) :
               /\ InDockerCom(call.args.repository_url)
               /\ parts[i-1] = Str("repository")
               /\ parts[i] = Str("docker")
               /\ PairAfter(parts, i)
               /\ \A j \in 2..(i-1) : ~(parts[j-1] = Str("repository") /\ parts[j] = Str("docker"))
               => ParsedAs(call, parts[i+1], parts[i+2])

\* the name part of an image reference: the text before its first ':'
NamePart(image) == IF Contains(image, COLON) THEN SubSeq(image, 1, FirstIndex(image, COLON) - 1) ELSE image

\* name is normalised to n: library/name without a '/', name itself with one,
\* and n is a fixed point of the normalisation
NormalisedTo(name, n) ==
    /\ ~Contains(name, SLASH) => n = <<"library", SLASH>> \o name
    /\ Contains(name, SLASH) => n = name
    /\ Library(n) = n

\* C10: in every name-taking operation a name without '/' is given the
\* namespace 'library' and a name with '/' keeps its own; search_tags splits
\* on the first '/' only (namespace = text before it, repository = all after
\* it); normalising an already qualified name leaves it unchanged.
C10_NameNormalisation ==
    /\ call.tool = "search_tags" =>
          LET name == call.args.image_name
              ns == call.reqs[1].namespace
              rn == call.reqs[1].repository
          IN  /\ NormalisedTo(name, ns \o <<SLASH>> \o rn)
              /\ ~Contains(ns, SLASH)
              /\ IF call.file = Explorer
                 THEN search_tags_split(ns \o <<SLASH>> \o rn) = <<ns, rn>>
                 ELSE sample_search_tags_split(ns \o <<SLASH>> \o rn) = <<ns, rn>>
    /\ call.tool \in {"scan_security", "analyze_runtime"} =>
          NormalisedTo(call.args.image_name, call.out.value.image_name)
    /\ call.tool = "compare_images" =>
          /\ NormalisedTo(NamePart(call.args.image1), call.out.value.image1.name)
          /\ NormalisedTo(NamePart(call.args.image2), call.out.value.image2.name)
    /\ \A p \in Slots :
          req[p].caller # "none" =>
             /\ NormalisedTo(req[p].name, req[p].repository)
             /\ get_manifest_repository(req[p].repository) = req[p].repository
             /\ req[p].issued[1].scope = req[p].repository

\* search_tags of nginx/library/nginx asks for the tags of namespace nginx,
\* repository library/nginx
C10_Witness ==
    /\ call.tool = "search_tags"
    /\ call.file = Explorer
    /\ call.args.image_name = <<"nginx", SLASH, "library", SLASH, "nginx">>
    /\ call.reqs[1].namespace = Str("nginx")
    /\ call.reqs[1].repository = <<"library", SLASH, "nginx">>

\* the tag records the remote listed: the results of a 200 answer, none otherwise
Fetched(c) ==
    LET resp == c.answers[1]
    IN  IF resp.status = 200 THEN resp.body.obj.results ELSE <<>>

\* the positions of the listed tags whose name holds the pattern
Matching(fetched, tag_pattern) ==
    { i \in 1..Len(fetched) : tag_pattern = "" \/ IsSubstring(tag_pattern, fetched[i].name) }

\* the j-th smallest member of the set of positions K
Nth(K, j) == CHOOSE i \in K : Cardinality({ k \in K : k <= i }) = j

\* the tag names a search_tags result holds, in its order
NamesReturned(out) ==
    IF out.value.type = "list[str]" THEN out.value.items ELSE Names(out.value.items)

\* C11: search_tags returns exactly the fetched tags whose name contains
\* tag_pattern, in the order the remote listed them, and every fetched tag when
\* tag_pattern is empty; both server files return the same sequence of tag
\* names for the same inputs and remote response.
C11_TagFiltering ==
    call.tool = "search_tags" =>
        LET a == call.args
            resp == call.answers[1]
            here == search_tags(a.image_name, a.tag_pattern, a.limit, resp).out
            there == sample_search_tags(a.image_name, a.tag_pattern, a.limit, resp).out
        IN  /\ here.raised = there.raised
            /\ ~here.raised => NamesReturned(here) = NamesReturned(there)
            /\ ~call.out.raised =>
                  LET fetched == Fetched(call)
                      K == Matching(fetched, a.tag_pattern)
                      got == NamesReturned(call.out)
                  IN  /\ Len(got) = Cardinality(K)
                      /\ \A j \in 1..Len(got) : got[j] = fetched[Nth(K, j)].name
                      /\ call.file = Explorer =>
                            \A j \in 1..Len(got) :
                               call.out.value.items[j].last_updated
                                  = GetOr(fetched[Nth(K, j)], "last_updated", "None")

\* the remote listed latest then 1.0-alpine; pattern alpine keeps the second only
C11_Witness ==
    /\ call.tool = "search_tags"
    /\ call.args.tag_pattern = "alpine"
    /\ ~call.answers[1].err
    /\ call.answers[1].status = 200
    /\ ~call.out.raised
    /\ Names(Fetched(call)) = <<"latest", "1.0-alpine">>
    /\ NamesReturned(call.out) = <<"1.0-alpine">>

\* the issue names of a scan_security report, in its order
IssueNames(out) == [i \in 1..Len(out.value.relevant_issues) |-> out.value.relevant_issues[i].issue]

KnownAppTypes == {"web", "database", "cache", "api", "batch"}

\* C13: analyze_runtime looks the profile up case-insensitively: for an
\* app_type whose lowercase form is web, database, cache, api or batch the four
\* resource-usage lines are those of that profile, and for every other
\* app_type they are the four values of the 'web' profile.
C13_ProfileLookup ==
    call.tool = "analyze_runtime" =>
        LET t == LowerWord(call.args.app_type)
            usage == call.out.value.usage
        IN  /\ t \in KnownAppTypes => usage = resource_profiles[t]
            /\ t = "cache" => usage = [cpu |-> "Low", memory |-> "High", io |-> "Medium", network |-> "Medium"]
            /\ t \notin KnownAppTypes
                  => usage = [cpu |-> "Medium", memory |-> "Medium", io |-> "High", network |-> "High"]

\* app_type 'Cache' is given the cache profile
C13_Witness ==
    /\ call.tool = "analyze_runtime"
    /\ call.args.app_type = "Cache"
    /\ call.out.value.usage.cpu = "Low"
    /\ call.out.value.usage.memory = "High"

\* C14: for every app_type that is not recognised the whole report (resource
\* usage, orchestration recommendations, recommended resource limits) is
\* identical to the report for app_type 'web' with the same image_name and tag.
C14_UnrecognisedIsWebExactly ==
    call.tool = "analyze_runtime" /\ LowerWord(call.args.app_type) \notin KnownAppTypes
        => call.out = analyze_runtime(call.args.image_name, call.args.tag, "web").out

\* the positions of the commas of a comma-separated argument
Commas(arg) == { i \in 1..Len(arg) : arg[i] = COMMA }

\* the j-th comma-separated item of arg: what lies between comma j-1 and comma j
ItemOf(arg, j) ==
    LET from == IF j = 1 THEN 1 ELSE Nth(Commas(arg), j - 1) + 1
        to == IF j = Cardinality(Commas(arg)) + 1 THEN Len(arg) ELSE Nth(Commas(arg), j) - 1
    IN  SubSeq(arg, from, to)

\* e is s without its surrounding blanks
StrippedOf(e, s) ==
    /\ Len(e) > 0 => e[1] # SPACE /\ e[Len(e)] # SPACE
    /\ \E a, b \in 0..Len(s) :
          /\ a + Len(e) + b = Len(s)
          /\ SubSeq(s, a + 1, a + Len(e)) = e
          /\ \A i \in (1..a) \cup ((a + Len(e) + 1)..Len(s)) : s[i] = SPACE

\* the entries under a key of the app service are the items of arg, stripped,
\* in order; no key for an empty arg
EntriesOf(key, arg) ==
    IF arg = <<>> THEN ~key.key
    ELSE /\ key.key
         /\ Len(key.entries) = Cardinality(Commas(arg)) + 1
         /\ \A j \in 1..Len(key.entries) : StrippedOf(key.entries[j], ItemOf(arg, j))

\* a successful generate_docker_compose: the compose file was rendered
Composed(c) == c.tool = "generate_docker_compose" /\ ~c.out.raised /\ "app" \in DOMAIN c.out.value

\* C15: generate_docker_compose emits one 'ports:' entry per comma-separated
\* item of port_mapping and one 'environment:' entry per item of
\* environment_variables, each stripped and in the order given; for an empty
\* argument the key is absent from the app service.
C15_ComposeEntries ==
    Composed(call) =>
        /\ EntriesOf(call.out.value.app.ports, call.args.port_mapping)
        /\ EntriesOf(call.out.value.app.environment, call.args.environment_variables)
        /\ call.args.port_mapping = <<"8080", COLON, "80", COMMA, "443", COLON, "443">>
              => call.out.value.app.ports.entries = << <<"8080", COLON, "80">>, <<"443", COLON, "443">> >>

\* ' 8080:80 , 443:443' gives the entries 8080:80 and 443:443
C15_Witness ==
    /\ Composed(call)
    /\ call.args.port_mapping = <<SPACE, "8080", COLON, "80", SPACE, COMMA, SPACE, "443", COLON, "443">>
    /\ call.out.value.app.ports.entries = << <<"8080", COLON, "80">>, <<"443", COLON, "443">> >>
    /\ ~call.out.value.app.environment.key

\* C16: with include_db=true generate_docker_compose emits the db service, a
\* depends_on on db, app_network on the app and the db service, the networks
\* block defining app_network and the volumes block defining db_data; with
\* include_db=false none of these appear.
C16_ComposeDatabase ==
    Composed(call) =>
        LET v == call.out.value
        IN  /\ call.args.include_db
                  => /\ v.db.present
                     /\ Len(v.services) = 2 /\ v.services[2] = Str("db")
                     /\ v.app.depends_on = <<"db">>
                     /\ v.app.networks = <<"app_network">>
                     /\ v.db.networks = <<"app_network">>
                     /\ v.networks_section = <<"app_network">>
                     /\ v.volumes_section = <<"db_data">>
            /\ ~call.args.include_db
                  => /\ ~v.db.present
                     /\ Len(v.services) = 1
                     /\ v.app.depends_on = <<>>
                     /\ v.app.networks = <<>>
                     /\ v.networks_section = <<>>
                     /\ v.volumes_section = <<>>

\* a compose file with the db service and both top-level blocks
C16_Witness ==
    /\ Composed(call)
    /\ call.args.include_db
    /\ call.out.value.db.present
    /\ call.out.value.networks_section = <<"app_network">>
    /\ call.out.value.volumes_section = <<"db_data">>

\* the records a listing answer holds: the results of a 200 answer, none otherwise
ListedBy(resp) == IF resp.status = 200 THEN resp.body.obj.results ELSE <<>>

\* analyze_repository rendered its report
Analyzed(c) ==
    c.tool = "analyze_repository" /\ ~c.out.raised /\ c.out.value.text = "# Docker Repository"

\* C17: the report of analyze_repository lists at most 5 tags, whatever number
\* of tag records the tag-listing response contains; for an empty tag list it
\* says no tags were found and the pull command uses 'latest', otherwise the
\* pull command uses the name of the first listed tag.
C17_AtMostFiveTags ==
    Analyzed(call) =>
        LET listed == ListedBy(call.answers[2])
            v == call.out.value
        IN  /\ Len(listed) = 0
                  => v.latest_tags = <<"No tags found for this repository.">> /\ v.pull_tag = "latest"
            /\ Len(listed) > 0
                  => /\ v.pull_tag = listed[1].name
                     /\ Len(v.latest_tags) <= 5
                     /\ \A i \in 1..Len(v.latest_tags) : v.latest_tags[i] = listed[i].name

\* optimize_image_size rendered its report
Optimized(c) ==
    c.tool = "optimize_image_size" /\ ~c.out.raised /\ c.out.value.text = "# Size Optimization"

\* the first listed record named tag
Matched(listed, tag) ==
    listed[CHOOSE i \in 1..Len(listed) :
              listed[i].name = tag /\ \A j \in 1..(i-1) : listed[j].name # tag]

\* the repository name of a report: what follows the first '/' of its full name
RepoNameOf(v) == SplitFirst(v.full_repo_name, SLASH)[2]

\* C18: in a successful optimize_image_size report the current size is shown
\* in MB exactly when the matched tag record has a full_size field; the report
\* holds the Node.js, Python or Java section 5 exactly when the lowercased
\* repository name is in that family's keyword list and no section 5
\* otherwise; the four general sections are always present.
C18_SizeAndFamilySection ==
    Optimized(call) =>
        LET v == call.out.value
            t == Matched(ListedBy(call.answers[2]), call.args.tag)
            name == Lower(RepoNameOf(v))
        IN  /\ v.current_size.known <=> "full_size" \in DOMAIN t
            /\ v.current_size.known => v.current_size.mb_hundredths * 1024 * 1024 = t.full_size.number * 100
            /\ v.section5 = "### 5. Node.js Specific Recommendations"
                  <=> name \in {Str("node"), Str("nodejs"), Str("javascript"), Str("js")}
            /\ v.section5 = "### 5. Python Specific Recommendations"
                  <=> name \in {Str("python"), Str("django"), Str("flask")}
            /\ v.section5 = "### 5. Java Specific Recommendations"
                  <=> name \in {Str("java"), Str("spring"), Str("maven"), Str("gradle")}
            /\ v.section5 \in {"### 5. Node.js Specific Recommendations",
                               "### 5. Python Specific Recommendations",
                               "### 5. Java Specific Recommendations", "absent"}
            /\ Len(v.sections) = 4
            /\ \A i \in 1..4 : v.sections[i] = GeneralSections[i]

\* repository Node, tag 1.0 of 1.5 MB: the size is shown and section 5 is the Node.js one
C18_Witness ==
    /\ Optimized(call)
    /\ call.args.tag = "1.0"
    /\ RepoNameOf(call.out.value) = Str("Node")
    /\ call.out.value.current_size = [known |-> TRUE, mb_hundredths |-> 150]
    /\ call.out.value.section5 = "### 5. Node.js Specific Recommendations"

\* analyze_dockerfile rendered its report
Estimated(c) ==
    c.tool = "analyze_dockerfile" /\ ~c.out.raised /\ c.out.value.text = "# Dockerfile Analysis"

\* C19: for every successfully parsed URL analyze_dockerfile chooses the
\* template by the repository name alone: the Drupal template exactly when the
\* name equals 'drupal' ignoring case, the generic template otherwise;
\* namespace and tag only appear in the heading; no HTTP request is issued.
C19_TemplateByRepositoryName ==
    /\ call.tool = "analyze_dockerfile" => call.reqs = <<>>
    /\ Estimated(call) =>
          LET v == call.out.value
              name == Lower(RepoNameOf(v))
          IN  /\ name = Str("drupal") => v.dockerfile = "FROM php:8.1-apache"
              /\ name # Str("drupal") => v.dockerfile = "FROM base-image:version"
              /\ v.tag = call.args.tag
              /\ \A t \in Tags :
                    LET w == analyze_dockerfile(call.args.repository_url, t).out.value
                    IN  w.dockerfile = v.dockerfile /\ w.full_repo_name = v.full_repo_name

\* repository Drupal of namespace library, tag 1.0: the Drupal template
C19_Witness ==
    /\ Estimated(call)
    /\ call.args.tag = "1.0"
    /\ call.out.value.full_repo_name = <<"library", SLASH, "Drupal">>
    /\ call.out.value.dockerfile = "FROM php:8.1-apache"
    /\ call.reqs = <<>>

\* C20: compare_images issues no HTTP request and renders set differences of
\* the two hard-coded lists: what is reported as added is exactly what is in
\* the second image's list and not in the first's, what is reported as removed
\* the converse, and a ports or environment section appears only when its
\* added or removed set is non-empty.
C20_SetDifferences ==
    call.tool = "compare_images" =>
        LET v == call.out.value
            d1 == image1_data
            d2 == image2_data(v.image1.name = v.image2.name /\ v.image1.tag # v.image2.tag)
            In(x, list) == \E i \in 1..Len(list) : list[i] = x
            Only(S, l, m) == /\ \A x \in S : In(x, l) /\ ~In(x, m)
                             /\ \A i \in 1..Len(l) : ~In(l[i], m) => l[i] \in S
        IN  /\ call.reqs = <<>>
            /\ ~call.out.raised
            /\ Only(v.added_ports, d2.exposed_ports, d1.exposed_ports)
            /\ Only(v.removed_ports, d1.exposed_ports, d2.exposed_ports)
            /\ Only(v.added_env, d2.environment, d1.environment)
            /\ Only(v.removed_env, d1.environment, d2.environment)
            /\ v.ports_section <=> v.added_ports # {} \/ v.removed_ports # {}
            /\ v.env_section <=> v.added_env # {} \/ v.removed_env # {}
            /\ v.added_env = {"NGINX_VERSION=1.22.1"}
            /\ v.added_ports \in {{}, {"443/tcp"}}

\* nginx:1.0 against nginx:latest: no ports section, NGINX_VERSION added
C20_Witness ==
    /\ call.tool = "compare_images"
    /\ call.args.image1 = <<"nginx", COLON, "1.0">>
    /\ call.args.image2 = <<"nginx">>
    /\ ~call.out.value.ports_section
    /\ call.out.value.env_section
    /\ call.out.value.added_env = {"NGINX_VERSION=1.22.1"}
    /\ call.out.value.removed_env = {}

\* slot p holds a call whose get_manifest returned a manifest
Fetched200(p) == pc[p] = "done" /\ ~req[p].gm.raised

\* the layers of a manifest, none when it has no layers field
LayersOf(manifest) == IF "layers" \in DOMAIN manifest THEN manifest.layers ELSE <<>>

\* the size of a layer, 0 when it has none
SizeOf(layer) == IF "size" \in DOMAIN layer THEN layer.size ELSE 0

\* the sum of the sizes of the first n layers
SumOfSizes(layers, n) ==
    LET S[i \in 0..n] == IF i = 0 THEN 0 ELSE S[i-1] + SizeOf(layers[i])
    IN  S[n]

\* C21: for a successfully fetched manifest get_image_details returns one
\* ImageLayer per manifest layer in manifest order and total_size is the sum
\* of the layer sizes, a missing size counted as 0; get_image_resource reports
\* the same total and the same layer count; with no layers the total is 0.
C21_LayersAndTotal ==
    \A p \in Slots :
        Fetched200(p) =>
            LET r == req[p]
                layers == LayersOf(r.gm.value)
                sum == SumOfSizes(layers, Len(layers))
                details == get_image_details_finish(r.name, r.tag, r.gm).out.value
                resource == get_image_resource_finish(r.name, r.tag, r.gm).out.value
            IN  /\ r.out = IF r.caller = "get_image_details" THEN Return(details) ELSE Return(resource)
                /\ Len(details.layers) = Len(layers)
                /\ \A i \in 1..Len(layers) :
                      /\ details.layers[i].size = SizeOf(layers[i])
                      /\ "digest" \in DOMAIN layers[i] => details.layers[i].digest = layers[i].digest
                /\ details.total_size = sum
                /\ resource.total_size = sum
                /\ resource.layer_count = Len(layers)
                /\ (resource.size_mb * 2 - 1) * 1024 * 1024 <= sum * 200
                /\ sum * 200 < (resource.size_mb * 2 + 1) * 1024 * 1024
                /\ Len(layers) = 0 => details.total_size = 0 /\ resource.size_mb = 0

\* a manifest of a sized layer then a layer without size: two ImageLayers, total 1572864
C21_Witness ==
    \E p \in Slots :
        /\ Fetched200(p)
        /\ req[p].caller = "get_image_details"
        /\ LayersOf(req[p].gm.value) = << [digest |-> "sha256:a", size |-> 1572864], [digest |-> "sha256:b"] >>
        /\ Len(req[p].out.value.layers) = 2
        /\ req[p].out.value.layers[2] = [digest |-> "sha256:b", size |-> 0]
        /\ req[p].out.value.total_size = 1572864

\* the i-th answer a one-step tool consumed; an answer it never asked for is no answer
AnswerTo(c, i) == IF i <= Len(c.answers) THEN c.answers[i] ELSE NoAnswer

\* what the tool of record c does on a server process that has served nothing
\* before, given c's arguments and the answers c received
Afresh(c) ==
    LET a == c.args
        r1 == AnswerTo(c, 1)
        r2 == AnswerTo(c, 2)
    IN  CASE c.tool = "search_images" ->
               IF c.file = Explorer THEN search_images(r1) ELSE sample_search_images(r1)
          [] c.tool = "search_users" ->
               IF c.file = Explorer THEN search_users(r1) ELSE sample_search_users(r1)
          [] c.tool = "search_tags" ->
               IF c.file = Explorer THEN search_tags(a.image_name, a.tag_pattern, a.limit, r1)
               ELSE sample_search_tags(a.image_name, a.tag_pattern, a.limit, r1)
          [] c.tool = "analyze_repository" -> analyze_repository(a.repository_url, r1, r2)
          [] c.tool = "analyze_dockerfile" -> analyze_dockerfile(a.repository_url, a.tag)
          [] c.tool = "optimize_image_size" -> optimize_image_size(a.repository_url, a.tag, r1, r2)
          [] c.tool = "generate_docker_compose" ->
               generate_docker_compose(a.repository_url, a.tag, a.port_mapping,
                                       a.environment_variables, a.include_db)
          [] c.tool = "scan_security" -> scan_security(a.image_name, a.tag)
          [] c.tool = "analyze_runtime" -> analyze_runtime(a.image_name, a.tag, a.app_type)
          [] c.tool = "compare_images" -> compare_images(a.image1, a.image2)

\* what get_image_details or get_image_resource does on a registry client
\* fresh from its constructor, given the call's arguments and the answers it received
RegistryAfresh(r) ==
    LET repository == get_manifest_repository(r.name)
        t == auth_outcome(r.auth)
        fresh == [Accept |-> AcceptManifestV2, Authorization |-> NoHeader]
        q1 == TokenRequest(repository)
        q2 == ManifestRequest(repository, r.tag, [fresh EXCEPT !.Authorization = Bearer(t.value)])
        gm == IF t.raised THEN t ELSE manifest_outcome(r.manifest)
    IN  [issued |-> IF t.raised THEN <<q1>> ELSE <<q1, q2>>,
         gm |-> gm,
         out |-> Finish(r.caller, r.name, r.tag, gm).out]

\* C22: in any sequence of invocations on one server process the result of an
\* invocation depends only on its own arguments and on the remote responses it
\* receives, never on the invocations before it; the same arguments against
\* the same remote data give the same requests and the same result.
C22_IndependentAndIdempotent ==
    /\ call.tool \in SearchTools \cup ReportTools
          => Did(call.out, call.reqs) = Afresh(call)
    /\ call.tool = "DockerHubClient"
          => call.out = ClientMethod(call.file, call.method, call.answers[1])
    /\ \A p \in Slots :
          pc[p] = "done" =>
             /\ req[p].issued = RegistryAfresh(req[p]).issued
             /\ req[p].gm = RegistryAfresh(req[p]).gm
             /\ req[p].out = RegistryAfresh(req[p]).out

\* a call for user/repo ended, its token refused, on a session that still
\* holds the token an earlier call was given for library/nginx
C22_Witness ==
    \E p \in Slots :
        /\ pc[p] = "done"
        /\ req[p].repository = <<"user", SLASH, "repo">>
        /\ req[p].gm = Raise("Failed to authenticate")
        /\ session.Authorization = Bearer(TokenFor(<<"library", SLASH, "nginx">>))
        /\ req[p].out = RegistryAfresh(req[p]).out

\* the copy of the parser a tool inlines
ParserOf(tool, url) ==
    CASE tool = "analyze_repository" -> analyze_repository_parse(url)
      [] tool = "analyze_dockerfile" -> analyze_dockerfile_parse(url)
      [] tool = "optimize_image_size" -> optimize_image_size_parse(url)
      [] tool = "generate_docker_compose" -> generate_docker_compose_parse(url)

\* what each URL-taking tool makes of url when the remote answers in full
ToolsOn(url) ==
    << analyze_repository(url, DefaultDetails, DefaultTags),
       analyze_dockerfile(url, "latest"),
       optimize_image_size(url, "latest", DefaultDetails, DefaultTags),
       generate_docker_compose(url, "latest", <<>>, <<>>, FALSE) >>

\* C23: the four copies of the URL parser are equivalent: for every input they
\* all yield the same (namespace, repository) pair or all yield the same
\* parse-failure message.
\* Every URL is given to each of the four tools, so it is enough that in each
\* invocation the tool's own copy agrees with the copy in analyze_repository
\* and that the tool went on with, or returned, what that copy yields.
C23_ParserCopiesAgree ==
    call.tool \in UrlTools =>
        \A first \in {analyze_repository_parse(call.args.repository_url)} :
            /\ ParserOf(call.tool, call.args.repository_url) = first
            /\ first.value.type = "str" => call.out = first /\ call.reqs = <<>>
            /\ first.value.type = "parsed"
                  => ParsedAs(call, first.value.namespace, first.value.repo_name)

\* the repository/docker form given to generate_docker_compose: all four copies
\* yield (jar285, drupal)
C23_Witness ==
    /\ call.tool = "generate_docker_compose"
    /\ call.args.repository_url = HubUrl(<<"repository", "docker", "jar285", "drupal", "general">>)
    /\ \A i \in 1..4 :
          ToolsOn(call.args.repository_url)[i].out.value.full_repo_name = <<"jar285", SLASH, "drupal">>

FetchingTools == {"analyze_repository", "optimize_image_size"}

\* C24: in analyze_repository and optimize_image_size no request is issued when
\* URL parsing fails; otherwise the repository-details GET is issued first and
\* the tag-listing GET only after the details GET answered 200; on a non-200
\* details answer the tool returns 'Could not retrieve information for
\* repository <namespace>/<repo>' and issues nothing more; at most two
\* requests are issued per invocation.
C24_RequestOrder ==
    call.tool \in FetchingTools =>
        LET p == IF call.tool = "analyze_repository"
                 THEN analyze_repository_parse(call.args.repository_url)
                 ELSE optimize_image_size_parse(call.args.repository_url)
            n == Len(call.reqs)
        IN  /\ n <= 2
            /\ p.value.type = "str" => n = 0 /\ call.out = p
            /\ p.value.type = "parsed"
                  => /\ n >= 1
                     /\ call.reqs[1] = [method |-> "GET", url |-> "/repositories/{namespace}/{repository}",
                                         namespace |-> p.value.namespace, repository |-> p.value.repo_name]
                     /\ n = 2 => /\ ~call.answers[1].err
                                  /\ call.answers[1].status = 200
                                  /\ call.reqs[2].url = "/repositories/{namespace}/{repository}/tags"
                                  /\ call.reqs[2].namespace = p.value.namespace
                                  /\ call.reqs[2].repository = p.value.repo_name
                     /\ ~call.answers[1].err /\ call.answers[1].status # 200
                           => /\ n = 1
                              /\ call.out = Return(TextOf("Could not retrieve information for repository",
                                                           FullRepoName(p.value.namespace, p.value.repo_name)))

\* a details answer of 404 whose body is a full description: one request, the
\* 'Could not retrieve' text
C24_Witness ==
    /\ call.tool = "optimize_image_size"
    /\ Len(call.reqs) = 1
    /\ call.answers[1] = Answer(404, Json([description |-> "CMS", star_count |-> 7]))
    /\ call.out = Return(TextOf("Could not retrieve information for repository", <<"library", SLASH, "drupal">>))

\* the tag records optimize_image_size has to look through: the results of a
\* listing answered 200, none for a listing answered with another status
RecordsOf(resp) ==
    IF ~resp.err /\ resp.status = 200 /\ resp.body.json /\ "results" \in DOMAIN resp.body.obj
    THEN resp.body.obj.results
    ELSE <<>>

\* a record named tag is among the records
FoundAmong(records, tag) ==
    \E i \in 1..Len(records) : "name" \in DOMAIN records[i] /\ records[i].name = tag

TokenAnswered(p) == pc[p] = "auth" /\ pc'[p] # "auth"

\* the token request of slot p was answered 200 with a token
TokenGiven(p) ==
    /\ "auth" \in DOMAIN req'[p]
    /\ ~req'[p].auth.err /\ req'[p].auth.status = 200
    /\ req'[p].auth.body.json /\ "token" \in DOMAIN req'[p].auth.body.obj

HeaderStep ==
    /\ session'.Accept = session.Accept
    /\ session' # session => \E p \in Slots : TokenAnswered(p) /\ TokenGiven(p)
    /\ \A p \in Slots :
          /\ TokenAnswered(p) /\ ~req'[p].auth.err /\ req'[p].auth.status # 200 => session' = session
          /\ TokenAnswered(p) /\ TokenGiven(p)
                => session'.Authorization = Bearer(req'[p].auth.body.obj.token)
          /\ pc'[p] \in {"send", "manifest", "done"} /\ TokenGiven(p)
                => session'.Authorization = Bearer(req'[p].auth.body.obj.token)

\* C26: the session's Authorization header changes only after a successful
\* token exchange: a get_manifest call whose token request answers non-200
\* leaves the session headers as they were before the call; after a call whose
\* token request succeeded the header holds that call's token, and keeps
\* holding it when the call returns or its manifest fetch fails; the Accept
\* header set at construction is never changed.
C26_AuthorizationOnlyAfterToken == [][HeaderStep]_vars

\* a call for library/nginx ended, refused with 404 by a token service whose
\* answer nevertheless held a token, on a session that holds the token of an
\* earlier call for user/repo
C26_Witness ==
    \E p \in Slots :
        /\ pc[p] = "done"
        /\ req[p].auth = Answer(404, Json([token |-> TokenFor(<<"library", SLASH, "nginx">>)]))
        /\ session = [Accept |-> AcceptManifestV2,
                      Authorization |-> Bearer(TokenFor(<<"user", SLASH, "repo">>))]

\* the tag of an image reference: the text after its first ':', 'latest' when it has none
TagPart(image) ==
    IF Contains(image, COLON)
    THEN SubSeq(image, FirstIndex(image, COLON) + 1, Len(image))
    ELSE <<"latest">>

\* the name of an image reference with 'library/' before a name without '/'
LibraryName(image) ==
    IF Contains(NamePart(image), SLASH) THEN NamePart(image) ELSE <<"library", SLASH>> \o NamePart(image)

\* C27: compare_images takes the 'different versions of the same image' path
\* exactly when the two library-normalised names are equal and the two tags
\* (defaulting to 'latest' when the reference has no ':') differ; on that path
\* no port difference and no CMD difference is reported; on every other path,
\* two identical references included, the report is headed 'Comparing
\* different images' and lists 443/tcp as an added port. On every path the
\* removed sets are empty and NGINX_VERSION=1.22.1 is the only added
\* environment variable.
C27_SameImagePath ==
    call.tool = "compare_images" =>
        LET v == call.out.value
            same == /\ LibraryName(call.args.image1) = LibraryName(call.args.image2)
                    /\ TagPart(call.args.image1) # TagPart(call.args.image2)
        IN  /\ ~call.out.raised
            /\ v.heading = "Comparing different versions of the same image" <=> same
            /\ same => v.added_ports = {} /\ ~v.ports_section /\ ~v.cmd_section
            /\ ~same => /\ v.heading = "Comparing different images"
                         /\ v.added_ports = {"443/tcp"}
                         /\ v.ports_section
            /\ v.removed_ports = {}
            /\ v.removed_env = {}
            /\ v.added_env = {"NGINX_VERSION=1.22.1"}

\* nginx against library/nginx:latest, the same image under the same tag:
\* 'Comparing different images' with 443/tcp added
C27_Witness ==
    /\ call.tool = "compare_images"
    /\ call.args.image1 = <<"nginx">>
    /\ call.args.image2 = <<"library", SLASH, "nginx", COLON, "latest">>
    /\ call.out.value.heading = "Comparing different images"
    /\ call.out.value.added_ports = {"443/tcp"}

====
